---- MODULE Spec2Model ----
(***************************************************************************)
(* Red Lake Forest Watch: the change-detection and alert-extraction        *)
(* pipeline of satellite_processor.py.                                      *)
(*                                                                          *)
(* Units.  Dates held by the code as datetime values are proleptic          *)
(* Gregorian ordinals (0001-01-01 = 1); the 'YYYY-MM-DD' strings it hands   *)
(* to the imagery gateway are triples <<y, m, d>>.  NDVI values are         *)
(* hundredths (0.10 = 10).  Areas returned by geom.area() are whole square  *)
(* metres; an area in acres is an exact count of nano-acres kept as         *)
(* [micro, nano] (micro-acres, and the nano-acres left over) because the    *)
(* product exceeds 32 bits.  An area value stands for the double nearest   *)
(* it.  Areas stay below 10^7 m2, where no product is a decimal tie x.x5    *)
(* and the exact product compares and rounds as the double product of line  *)
(* 264 does.  A value rounded to one decimal place is a count of tenths     *)
(* (20.0 = 200).                                                            *)
(* lat, lng are copied from the collaborator's centroid and decide nothing; *)
(* they are left out of the alert records.                                  *)
(***************************************************************************)
EXTENDS Integers, Sequences, FiniteSets, TLC

VARIABLES
    pc,               \* position of the run: start, load, detect, extract, export, done
    ee_initialized,   \* result of initialize_ee(): "unset", "ok" or "failed"
    region,           \* "unset", "geojson" or "bbox"
    args,             \* [current_date, lookback_days] given to detect_changes;
                      \* current_date is <<>> for None, else the string <<y, m, d>>
    current_date,     \* detect_changes' local after lines 184-187 (an ordinal), 0 before
    win,              \* <<>>, or <<w>> with w the four date strings of lines 190-194
    gateway_calls,    \* sequence of [start, end, found] for each get_sentinel2_image call
    changes,          \* detect_changes' result: [status |-> "unset" | "None"], or the dict
    vectorizer_calls, \* sequence of the masks passed to reduceToVectors
    features,         \* [damage, recovery]: the area lists the vectorizer calls returned
    alerts,           \* the list built by extract_change_areas
    alerts_file,      \* <<>> while output/alerts.json is absent, else <<its content>>
    returned          \* run_analysis: [status |-> "running" | "None" | "alerts", value]

vars == <<pc, ee_initialized, region, args, current_date, win, gateway_calls,
          changes, vectorizer_calls, features, alerts, alerts_file, returned>>

(***************************************************************************)
(* Program constants                                                        *)
(***************************************************************************)
NDVI_DECREASE_THRESHOLD == -15
NDVI_INCREASE_THRESHOLD == 10
MIN_AREA_ACRES == 2
HIGH_SEVERITY_ACRES == 20
COMPOSITE_DAYS == 15
DEFAULT_LOOKBACK_DAYS == 30
SQM_TO_NANO_ACRES == 247105
MAX_NDVI == 100

(***************************************************************************)
(* Bounds of the model                                                      *)
(***************************************************************************)
MaxDamageFeatures == 2
MaxRecoveryFeatures == 2
MaxScenes == 1
MaxLookback == 40
DayRange == 800
MaxThreshold == 30

Pixels == {"p1", "p2"}
BaselineNdviValues == {50, 60}
CurrentNdviValues == {35, 50, 70}
\* 1.90, 1.99986, 2.00007, 19.99994, 20.00019 and 25.0001 acres
DamageAreasSqm == {7689, 8093, 8094, 80937, 80938, 101172}
RecoveryAreasSqm == {8093, 8094, 101172}
\* current_date arguments: None, or a date string
DateArgs == {<<>>, <<2024, 6, 15>>, <<2024, 3, 10>>}
LookbackArgs == {10, COMPOSITE_DAYS, DEFAULT_LOOKBACK_DAYS}
\* datetime.now(), as dates
NowDates == {<<2025, 1, 5>>}
FirstDate == <<2023, 1, 1>>

(***************************************************************************)
(* datetime: strptime('%Y-%m-%d'), strftime('%Y-%m-%d'), - timedelta(days)  *)
(***************************************************************************)
IsLeap(y) == (y % 4 = 0) /\ ((y % 100 # 0) \/ (y % 400 = 0))

DAYS_IN_MONTH == <<31, 28, 31, 30, 31, 30, 31, 31, 30, 31, 30, 31>>

\* days of a common year before the first of month m
RECURSIVE DAYS_BEFORE_MONTH(_)
DAYS_BEFORE_MONTH(m) ==
    IF m = 1 THEN 0 ELSE DAYS_BEFORE_MONTH(m - 1) + DAYS_IN_MONTH[m - 1]

DaysBeforeYear(y) ==
    LET p == y - 1 IN p * 365 + (p \div 4) - (p \div 100) + (p \div 400)

DaysBeforeMonth(y, m) ==
    DAYS_BEFORE_MONTH(m) + (IF m > 2 /\ IsLeap(y) THEN 1 ELSE 0)

\* datetime.strptime(s, '%Y-%m-%d'), as an ordinal
Strptime(s) == DaysBeforeYear(s[1]) + DaysBeforeMonth(s[1], s[2]) + s[3]

\* dt.strftime('%Y-%m-%d'): the ordinal split into year, month and day
Strftime(ord) ==
    LET n0   == ord - 1
        n400 == n0 \div 146097
        r400 == n0 % 146097
        n100 == r400 \div 36524
        r100 == r400 % 36524
        n4   == r100 \div 1461
        r4   == r100 % 1461
        n1   == r4 \div 365
        n    == r4 % 365
        year == n400 * 400 + 1 + n100 * 100 + n4 * 4 + n1
    IN  IF n1 = 4 \/ n100 = 4 THEN <<year - 1, 12, 31>>
        ELSE LET leap  == (n1 = 3) /\ ((n4 # 24) \/ (n100 = 3))
                 guess == (n + 50) \div 32
                 preceding(m) ==
                     DAYS_BEFORE_MONTH(m) + (IF m > 2 /\ leap THEN 1 ELSE 0)
                 month == IF preceding(guess) > n THEN guess - 1 ELSE guess
             IN  <<year, month, n - preceding(month) + 1>>

\* dt - timedelta(days = k)
MinusDays(ord, k) == ord - k

\* SelectWindows with the baseline start offset by lookback - 15 days
SelectWindowsShortBaseline(cd, lookback_days) ==
    [current_start  |-> Strftime(MinusDays(cd, COMPOSITE_DAYS)),
     current_end    |-> Strftime(cd),
     baseline_end   |-> Strftime(MinusDays(cd, lookback_days)),
     baseline_start |-> Strftime(MinusDays(cd, lookback_days - COMPOSITE_DAYS))]

\* lines 190-194: the two date windows, as the strings given to the gateway
SelectWindows(cd, lookback_days) ==
    [current_start  |-> Strftime(MinusDays(cd, COMPOSITE_DAYS)),
     current_end    |-> Strftime(cd),
     baseline_end   |-> Strftime(MinusDays(cd, lookback_days)),
     baseline_start |-> Strftime(MinusDays(cd, lookback_days + COMPOSITE_DAYS))]

(***************************************************************************)
(* Change classification (lines 211-222), per pixel                         *)
(***************************************************************************)
\* ee.Image.subtract, ee.Image.lt, ee.Image.gt at one pixel
ImageSubtract(a, b) == a - b
ImageLt(x, threshold) == x < threshold
ImageGt(x, threshold) == x > threshold

NdviChange(baseline_ndvi, current_ndvi) ==
    [p \in Pixels |-> ImageSubtract(current_ndvi[p], baseline_ndvi[p])]

\* DamageMask with the comparison turned round
DamageMaskGt(ndvi_change) ==
    [p \in Pixels |-> ImageGt(ndvi_change[p], NDVI_DECREASE_THRESHOLD)]

DamageMask(ndvi_change) ==
    [p \in Pixels |-> ImageLt(ndvi_change[p], NDVI_DECREASE_THRESHOLD)]

RecoveryMask(ndvi_change) ==
    [p \in Pixels |-> ImageGt(ndvi_change[p], NDVI_INCREASE_THRESHOLD)]

(***************************************************************************)
(* Areas (lines 263-264, 273, 276)                                          *)
(***************************************************************************)
\* k whole acres
Acres(k) == [micro |-> k * 1000000, nano |-> 0]

\* area_sqm * 0.000247105
AreaAcres(area_sqm) ==
    LET hi == SQM_TO_NANO_ACRES \div 1000
        lo == SQM_TO_NANO_ACRES % 1000
    IN  [micro |-> area_sqm * hi + ((area_sqm * lo) \div 1000),
         nano  |-> (area_sqm * lo) % 1000]

AcresGe(a, b) == a.micro > b.micro \/ (a.micro = b.micro /\ a.nano >= b.nano)
AcresGt(a, b) == a.micro > b.micro \/ (a.micro = b.micro /\ a.nano > b.nano)

\* floor(log2(num / den)) for num, den > 0: the binary exponent of a double
RECURSIVE FloorLog2(_, _)
FloorLog2(num, den) ==
    IF num < den THEN FloorLog2(2 * num, den) - 1
    ELSE IF num >= 2 * den THEN FloorLog2(num \div 2, den) + 1
    ELSE 0

\* the double nearest the decimal tie (2q+1)/20, against the tie itself:
\* (2q+1) * 2^(50-e) mod 5 is the fifths left over at the 53rd bit, 0 when
\* the tie is exact in binary (x.25, x.75), 1 or 2 when the double lies
\* below it, 3 or 4 when it lies above
TieFifths(q) ==
    LET num == 2 * q + 1
        e == FloorLog2(num, 20)
        pow2mod5 == <<1, 2, 4, 3>>[((50 - e) % 4) + 1]
    IN  ((num % 5) * pow2mod5) % 5

\* round(area_acres, 1), in tenths, of the double nearest the value: a
\* decimal tie follows the side its double lies on, and goes to the even
\* tenth only when the double is the tie exactly
Round1(a) ==
    LET q == a.micro \div 100000
        r == a.micro % 100000
    IN  IF r > 50000 \/ (r = 50000 /\ a.nano > 0) THEN q + 1
        ELSE IF r < 50000 THEN q
        ELSE IF TieFifths(q) \in {3, 4} THEN q + 1
        ELSE IF TieFifths(q) \in {1, 2} THEN q
        ELSE IF q % 2 = 1 THEN q + 1
        ELSE q

\* PassesAreaFilter applied to the rounded area
PassesAreaFilterRounded(area_acres) == Round1(area_acres) >= MIN_AREA_ACRES * 10

\* line 266 and line 297
PassesAreaFilter(area_acres) == AcresGe(area_acres, Acres(MIN_AREA_ACRES))

\* DamageSeverity decided on the rounded area
DamageSeverityRounded(area_acres) ==
    IF Round1(area_acres) > HIGH_SEVERITY_ACRES * 10 THEN "high" ELSE "medium"

\* DamageSeverity compared with the minimum area instead of 20 acres
DamageSeverityMinArea(area_acres) ==
    IF AcresGt(area_acres, Acres(MIN_AREA_ACRES)) THEN "high" ELSE "medium"

\* line 273
DamageSeverity(area_acres) ==
    IF AcresGt(area_acres, Acres(HIGH_SEVERITY_ACRES)) THEN "high" ELSE "medium"

\* f"damage_{i+1}" for the enumerate index i = pos - 1
DamageId(pos) == <<"damage", pos>>
RecoveryId(pos) == <<"recovery", pos>>

\* lines 270-279
DamageAlert(pos, area_sqm, date) ==
    LET area_acres == AreaAcres(area_sqm) IN
    [id          |-> DamageId(pos),
     type        |-> "vegetation_change",
     severity    |-> DamageSeverity(area_acres),
     area_acres  |-> Round1(area_acres),
     date        |-> date,
     description |-> <<"Significant vegetation loss detected", Round1(area_acres)>>]

\* lines 300-309
RecoveryAlert(pos, area_sqm, date) ==
    LET area_acres == AreaAcres(area_sqm) IN
    [id          |-> RecoveryId(pos),
     type        |-> "recovery",
     severity    |-> "positive",
     area_acres  |-> Round1(area_acres),
     date        |-> date,
     description |-> <<"Vegetation recovery observed", Round1(area_acres)>>]

\* the loop of lines 260-279 over positions pos..Len(fs)
RECURSIVE DamageLoop(_, _, _)
DamageLoop(fs, pos, date) ==
    IF pos > Len(fs) THEN <<>>
    ELSE (IF PassesAreaFilter(AreaAcres(fs[pos]))
          THEN <<DamageAlert(pos, fs[pos], date)>> ELSE <<>>)
         \o DamageLoop(fs, pos + 1, date)

\* the loop of lines 292-309
RECURSIVE RecoveryLoop(_, _, _)
RecoveryLoop(fs, pos, date) ==
    IF pos > Len(fs) THEN <<>>
    ELSE (IF PassesAreaFilter(AreaAcres(fs[pos]))
          THEN <<RecoveryAlert(pos, fs[pos], date)>> ELSE <<>>)
         \o RecoveryLoop(fs, pos + 1, date)

\* BuildAlerts with the recovery loop first
BuildAlertsRecoveryFirst(damage_features, recovery_features, date) ==
    RecoveryLoop(recovery_features, 1, date) \o DamageLoop(damage_features, 1, date)

\* lines 246-311: alerts = [], damage appended first, then recovery
BuildAlerts(damage_features, recovery_features, date) ==
    DamageLoop(damage_features, 1, date) \o RecoveryLoop(recovery_features, 1, date)

SeqsUpTo(S, n) == UNION {[1..k -> S] : k \in 0..n}
AnyTrue(mask) == \E p \in Pixels : mask[p]

(***************************************************************************)
(* The run                                                                  *)
(***************************************************************************)
Init ==
    /\ pc = "start"
    /\ ee_initialized = "unset"
    /\ region = "unset"
    /\ args \in [current_date : DateArgs, lookback_days : LookbackArgs]
    /\ current_date = 0
    /\ win = <<>>
    /\ gateway_calls = <<>>
    /\ changes = [status |-> "unset"]
    /\ vectorizer_calls = <<>>
    /\ features = [damage |-> <<>>, recovery |-> <<>>]
    /\ alerts = <<>>
    /\ alerts_file = <<>>
    /\ returned = [status |-> "running", value |-> <<>>]

\* InitializeEE with the failure ignored by run_analysis
InitializeEEUnchecked ==
    /\ pc = "start"
    /\ \E ok \in BOOLEAN : ee_initialized' = IF ok THEN "ok" ELSE "failed"
    /\ pc' = "load"
    /\ UNCHANGED <<region, args, current_date, win, gateway_calls, changes,
                   vectorizer_calls, features, alerts, alerts_file, returned>>

\* lines 58-68 and 369-370: ee.Initialize succeeds or raises
InitializeEE ==
    /\ pc = "start"
    /\ \E ok \in BOOLEAN :
         /\ ee_initialized' = IF ok THEN "ok" ELSE "failed"
         /\ pc' = IF ok THEN "load" ELSE "done"
         /\ returned' = IF ok THEN returned ELSE [status |-> "None", value |-> <<>>]
    /\ UNCHANGED <<region, args, current_date, win, gateway_calls, changes,
                   vectorizer_calls, features, alerts, alerts_file>>

\* lines 75-98 and 374: the boundary file, or the bounding box
LoadReservationBoundary ==
    /\ pc = "load"
    /\ \E file_exists \in BOOLEAN :
         region' = IF file_exists THEN "geojson" ELSE "bbox"
    /\ pc' = "detect"
    /\ UNCHANGED <<ee_initialized, args, current_date, win, gateway_calls, changes,
                   vectorizer_calls, features, alerts, alerts_file, returned>>

\* lines 184-187: datetime.now() for None (nows: what the clock may read),
\* else the parsed string
ReferenceDates(arg, nows) == IF arg = <<>> THEN nows ELSE {Strptime(arg)}

\* lines 105-132: None when no scene qualifies, else the composite
GetSentinel2Image(count) == IF count = 0 THEN "None" ELSE "composite"

\* InsufficientImagery requiring both images to be missing
InsufficientImageryBoth(baseline_image, current_image) ==
    baseline_image = "None" /\ current_image = "None"

\* line 207
InsufficientImagery(baseline_image, current_image) ==
    baseline_image = "None" \/ current_image = "None"

\* lines 224-232
ChangeResults(baseline_ndvi, current_ndvi, w) ==
    LET ndvi_change == NdviChange(baseline_ndvi, current_ndvi) IN
    [status        |-> "dict",
     baseline_ndvi |-> baseline_ndvi,
     current_ndvi  |-> current_ndvi,
     ndvi_change   |-> ndvi_change,
     damage_mask   |-> DamageMask(ndvi_change),
     recovery_mask |-> RecoveryMask(ndvi_change),
     baseline_date |-> w.baseline_end,
     current_date  |-> w.current_end]

\* lines 172-232 and 378-382
DetectChanges ==
    /\ pc = "detect"
    /\ \E cd \in ReferenceDates(args.current_date, {Strptime(d) : d \in NowDates}),
          baseline_count \in 0..MaxScenes, current_count \in 0..MaxScenes,
          baseline_ndvi \in [Pixels -> BaselineNdviValues],
          current_ndvi \in [Pixels -> CurrentNdviValues] :
         LET w == SelectWindows(cd, args.lookback_days)
             baseline_image == GetSentinel2Image(baseline_count)
             current_image == GetSentinel2Image(current_count)
         IN  /\ current_date' = cd
             /\ win' = <<w>>
             /\ gateway_calls' =
                  <<[start |-> w.baseline_start, end |-> w.baseline_end,
                     found |-> baseline_image],
                    [start |-> w.current_start, end |-> w.current_end,
                     found |-> current_image]>>
             /\ IF InsufficientImagery(baseline_image, current_image)
                THEN /\ changes' = [status |-> "None"]
                     /\ pc' = "done"
                     /\ returned' = [status |-> "None", value |-> <<>>]
                ELSE /\ changes' = ChangeResults(baseline_ndvi, current_ndvi, w)
                     /\ pc' = "extract"
                     /\ UNCHANGED returned
    /\ UNCHANGED <<ee_initialized, region, args, vectorizer_calls, features,
                   alerts, alerts_file>>

\* lines 235-311 and 386: one vectorizer call per mask; a mask with no pixel
\* set yields no feature, any other at least one
ExtractChangeAreas ==
    /\ pc = "extract"
    /\ \E damage_features \in SeqsUpTo(DamageAreasSqm, MaxDamageFeatures),
          recovery_features \in SeqsUpTo(RecoveryAreasSqm, MaxRecoveryFeatures) :
         /\ (damage_features # <<>>) <=> AnyTrue(changes.damage_mask)
         /\ (recovery_features # <<>>) <=> AnyTrue(changes.recovery_mask)
         /\ features' = [damage |-> damage_features, recovery |-> recovery_features]
         /\ alerts' = BuildAlerts(damage_features, recovery_features,
                                  changes.current_date)
    /\ vectorizer_calls' = <<changes.damage_mask, changes.recovery_mask>>
    /\ pc' = "export"
    /\ UNCHANGED <<ee_initialized, region, args, current_date, win, gateway_calls,
                   changes, alerts_file, returned>>

\* lines 320-324
AlertsDocument(as) == [count |-> Len(as), alerts |-> as]

\* lines 388-414: the file is written and the list returned
ExportAlertsJson ==
    /\ pc = "export"
    /\ alerts_file' = <<AlertsDocument(alerts)>>
    /\ returned' = [status |-> "alerts", value |-> alerts]
    /\ pc' = "done"
    /\ UNCHANGED <<ee_initialized, region, args, current_date, win, gateway_calls,
                   changes, vectorizer_calls, features, alerts>>

Next ==
    \/ InitializeEE
    \/ LoadReservationBoundary
    \/ DetectChanges
    \/ ExtractChangeAreas
    \/ ExportAlertsJson

Spec == Init /\ [][Next]_vars

(***************************************************************************)
(* Window selection on its own, over every day of a range and every         *)
(* lookback up to MaxLookback                                               *)
(***************************************************************************)
WindowDays == {Strptime(FirstDate) + k : k \in 0..DayRange}

WindowInit ==
    /\ pc = "detect"
    /\ ee_initialized = "ok"
    /\ region = "bbox"
    /\ args \in [current_date : {<<>>} \cup {Strftime(o) : o \in WindowDays},
                 lookback_days : 0..MaxLookback]
    /\ current_date = 0
    /\ win = <<>>
    /\ gateway_calls = <<>>
    /\ changes = [status |-> "unset"]
    /\ vectorizer_calls = <<>>
    /\ features = [damage |-> <<>>, recovery |-> <<>>]
    /\ alerts = <<>>
    /\ alerts_file = <<>>
    /\ returned = [status |-> "running", value |-> <<>>]

\* lines 184-194 alone
WindowSelect ==
    /\ pc = "detect"
    /\ \E cd \in ReferenceDates(args.current_date, WindowDays) :
         /\ current_date' = cd
         /\ win' = <<SelectWindows(cd, args.lookback_days)>>
    /\ pc' = "windows"
    /\ UNCHANGED <<ee_initialized, region, args, gateway_calls, changes,
                   vectorizer_calls, features, alerts, alerts_file, returned>>

WindowNext == WindowSelect

WindowSpec == WindowInit /\ [][WindowNext]_vars

(***************************************************************************)
(* Properties                                                               *)
(***************************************************************************)
\* extract_change_areas has returned
Extracted == pc \in {"export", "done"} /\ changes.status = "dict"

OfKind(as, kind) == SelectSeq(as, LAMBDA a : a.id[1] = kind)
FeatureOf(a) ==
    IF a.id[1] = "damage" THEN features.damage[a.id[2]]
    ELSE features.recovery[a.id[2]]
AlertsWithId(id) == {k \in 1..Len(alerts) : alerts[k].id = id}

\* C1: the surviving alerts of each kind carry the consecutive ids
\* damage_1 .. damage_k and recovery_1 .. recovery_m, without gaps, in
\* vectorizer return order.
C1_ConsecutiveIds ==
    Extracted =>
        /\ \A k \in 1..Len(OfKind(alerts, "damage")) :
             OfKind(alerts, "damage")[k].id = DamageId(k)
        /\ \A k \in 1..Len(OfKind(alerts, "recovery")) :
             OfKind(alerts, "recovery")[k].id = RecoveryId(k)

\* C2: when the gateway finds no scene for the baseline window or for the
\* current window, detect_changes returns None, no mask exists, the
\* vectorizer is never called, no alerts file is written and run_analysis
\* returns no alerts.
C2_NoImageryAborts ==
    (\E i \in 1..Len(gateway_calls) : gateway_calls[i].found = "None") =>
        /\ changes = [status |-> "None"]
        /\ vectorizer_calls = <<>>
        /\ alerts = <<>>
        /\ alerts_file = <<>>
        /\ returned = [status |-> "None", value |-> <<>>]
        /\ pc = "done"

C2_Witness ==
    /\ Len(gateway_calls) = 2
    /\ gateway_calls[1].found = "composite"
    /\ gateway_calls[2].found = "None"
    /\ returned.status = "None"

\* C3: a lookback below 15 days is rejected before any gateway call:
\* detect_changes never reaches get_sentinel2_image and produces neither
\* masks nor alerts.
C3_ShortLookbackRejected ==
    args.lookback_days < COMPOSITE_DAYS =>
        /\ gateway_calls = <<>>
        /\ changes.status # "dict"
        /\ alerts = <<>>

DateLt(a, b) ==
    \/ a[1] < b[1]
    \/ a[1] = b[1] /\ a[2] < b[2]
    \/ a[1] = b[1] /\ a[2] = b[2] /\ a[3] < b[3]

IsDate(s) ==
    /\ Len(s) = 3
    /\ s[2] \in 1..12
    /\ s[3] \in 1..(DAYS_IN_MONTH[s[2]] + (IF s[2] = 2 /\ IsLeap(s[1]) THEN 1 ELSE 0))

\* C4: for a reference date r and a lookback L >= 15 the current window is
\* [r-15, r] and the baseline window [r-L-15, r-L]; each is 15 days wide with
\* start < end, the baseline ends no later than the current window starts, and
\* r = 2024-06-15, L = 30 gives [2024-05-01, 2024-05-16] and
\* [2024-05-31, 2024-06-15].
C4_Windows ==
    (win # <<>> /\ args.lookback_days >= 15) =>
        LET w == win[1]
            r == current_date
            L == args.lookback_days
        IN  /\ \A f \in {"baseline_start", "baseline_end",
                         "current_start", "current_end"} : IsDate(w[f])
            /\ args.current_date # <<>> => w.current_end = args.current_date
            /\ Strptime(w.current_end) = r
            /\ Strptime(w.current_start) = r - 15
            /\ Strptime(w.baseline_end) = r - L
            /\ Strptime(w.baseline_start) = r - L - 15
            /\ DateLt(w.baseline_start, w.baseline_end)
            /\ DateLt(w.current_start, w.current_end)
            /\ w.baseline_end = w.current_start \/ DateLt(w.baseline_end, w.current_start)
            /\ (args.current_date = <<2024, 6, 15>> /\ L = 30) =>
                 w = [baseline_start |-> <<2024, 5, 1>>,
                      baseline_end   |-> <<2024, 5, 16>>,
                      current_start  |-> <<2024, 5, 31>>,
                      current_end    |-> <<2024, 6, 15>>]

C4_Witness ==
    /\ win # <<>>
    /\ args = [current_date |-> <<2024, 3, 10>>, lookback_days |-> 15]
    /\ win[1].baseline_end = win[1].current_start
    /\ win[1].baseline_start = <<2024, 2, 9>>

\* the filter and the severity rule at the exact boundaries
AreaFilterBoundary ==
    /\ PassesAreaFilter(Acres(2))
    /\ ~PassesAreaFilter([micro |-> 1900000, nano |-> 0])
    /\ ~PassesAreaFilter([micro |-> 1999999, nano |-> 999])

SeverityBoundary ==
    /\ DamageSeverity(Acres(20)) = "medium"
    /\ DamageSeverity([micro |-> 20000000, nano |-> 1]) = "high"
    /\ DamageSeverity([micro |-> 20010000, nano |-> 0]) = "high"

\* C5: exactly one alert for each returned feature of at least 2 acres, none
\* for a smaller one, for damage and recovery alike; the boundary is
\* inclusive (1.9 acres dropped, 2.0 acres kept).
C5_AreaFilter ==
    /\ AreaFilterBoundary
    /\ Extracted =>
        /\ \A i \in 1..Len(features.damage) :
             Cardinality(AlertsWithId(DamageId(i))) =
                 IF AcresGe(AreaAcres(features.damage[i]), Acres(2)) THEN 1 ELSE 0
        /\ \A i \in 1..Len(features.recovery) :
             Cardinality(AlertsWithId(RecoveryId(i))) =
                 IF AcresGe(AreaAcres(features.recovery[i]), Acres(2)) THEN 1 ELSE 0
        /\ \A k \in 1..Len(alerts) :
             \/ alerts[k].id[1] = "damage" /\ alerts[k].id[2] \in 1..Len(features.damage)
             \/ alerts[k].id[1] = "recovery"
                /\ alerts[k].id[2] \in 1..Len(features.recovery)

C5_Witness ==
    /\ Extracted
    /\ features.damage = <<8093, 8094>>
    /\ features.recovery = <<8094, 8093>>
    /\ Len(alerts) = 2

\* C6: a damage alert has type vegetation_change and severity high when its
\* feature is strictly larger than 20 acres, else medium (20.0 acres is
\* medium); a recovery alert has type recovery and severity positive whatever
\* its area; no other severity occurs.
C6_Severity ==
    /\ SeverityBoundary
    /\ Extracted =>
        \A k \in 1..Len(alerts) :
            LET a == alerts[k] IN
            /\ a.severity \in {"high", "medium", "positive"}
            /\ a.id[1] = "damage" =>
                 /\ a.type = "vegetation_change"
                 /\ a.severity =
                      IF AcresGt(AreaAcres(FeatureOf(a)), Acres(20))
                      THEN "high" ELSE "medium"
            /\ a.id[1] = "recovery" =>
                 /\ a.type = "recovery"
                 /\ a.severity = "positive"

C6_Witness ==
    /\ Extracted
    /\ features.damage = <<80937, 80938>>
    /\ features.recovery = <<101172>>
    /\ Len(alerts) = 3
    /\ alerts[1].severity = "medium"
    /\ alerts[2].severity = "high"
    /\ alerts[3].severity = "positive"

\* every threshold pair decrease < 0 < increase, on every change value
ThresholdPairsDisjoint ==
    \A dec \in (-MaxThreshold)..(-1), inc \in 1..MaxThreshold,
       c \in (-2 * MAX_NDVI)..(2 * MAX_NDVI) :
        ~(ImageLt(c, dec) /\ ImageGt(c, inc))

\* C7: with damage = change < decreaseThreshold and recovery = change >
\* increaseThreshold, no pixel is in both masks, for the configured
\* thresholds and for every pair decreaseThreshold < 0 < increaseThreshold.
C7_MasksDisjoint ==
    /\ ThresholdPairsDisjoint
    /\ NDVI_DECREASE_THRESHOLD < 0 /\ 0 < NDVI_INCREASE_THRESHOLD
    /\ changes.status = "dict" =>
        \A p \in Pixels :
            /\ changes.ndvi_change[p] = changes.current_ndvi[p] - changes.baseline_ndvi[p]
            /\ changes.damage_mask[p] <=> changes.ndvi_change[p] < -15
            /\ changes.recovery_mask[p] <=> changes.ndvi_change[p] > 10
            /\ ~(changes.damage_mask[p] /\ changes.recovery_mask[p])

C7_Witness ==
    /\ changes.status = "dict"
    /\ changes.damage_mask["p1"] /\ ~changes.recovery_mask["p1"]
    /\ changes.recovery_mask["p2"] /\ ~changes.damage_mask["p2"]

\* C8: when initialize_ee fails, run_analysis returns without loading the
\* boundary, without a gateway or vectorizer call and without writing the
\* alerts file.
C8_SetupFailureIsFatal ==
    ee_initialized = "failed" =>
        /\ region = "unset"
        /\ gateway_calls = <<>>
        /\ vectorizer_calls = <<>>
        /\ alerts_file = <<>>
        /\ returned = [status |-> "None", value |-> <<>>]
        /\ pc = "done"

C8_Witness == ee_initialized = "failed" /\ pc = "done"

\* C9: in the returned and the persisted list every damage alert precedes
\* every recovery alert, each kind is in vectorizer return order, and export
\* neither reorders, adds nor removes alerts.
C9_AlertOrder ==
    Extracted =>
        /\ \A j, k \in 1..Len(alerts) :
             j < k =>
                /\ alerts[j].id[1] = "recovery" => alerts[k].id[1] = "recovery"
                /\ alerts[j].id[1] = alerts[k].id[1] => alerts[j].id[2] < alerts[k].id[2]
        /\ pc = "done" =>
             /\ alerts_file = <<[count |-> Len(alerts), alerts |-> alerts]>>
             /\ returned = [status |-> "alerts", value |-> alerts]
        /\ pc = "export" => alerts_file = <<>>

C9_Witness ==
    /\ pc = "done"
    /\ alerts_file # <<>>
    /\ Len(alerts_file[1].alerts) = 4
    /\ alerts_file[1].alerts[2].id = DamageId(2)
    /\ alerts_file[1].alerts[3].id = RecoveryId(1)

\* C10 as stated: a damage alert is high exactly when its reported
\* area_acres (one decimal place) exceeds 20, and every alert reports at
\* least 2.0.
C10_SeverityAgreesWithReportedArea ==
    Extracted =>
        \A k \in 1..Len(alerts) :
            /\ alerts[k].area_acres >= 20
            /\ alerts[k].id[1] = "damage" =>
                 (alerts[k].severity = "high" <=> alerts[k].area_acres > 200)

\* C10, amended: the severity follows the unrounded area, so a high alert
\* reports at least 20.0 and a medium alert at most 20.0 (an alert reporting
\* exactly 20.0 can be either); every alert reports at least 2.0.
C10_SeverityUpToRounding ==
    Extracted =>
        \A k \in 1..Len(alerts) :
            /\ alerts[k].area_acres >= 20
            /\ alerts[k].area_acres = Round1(AreaAcres(FeatureOf(alerts[k])))
            /\ alerts[k].severity = "high" => alerts[k].area_acres >= 200
            /\ alerts[k].severity = "medium" => alerts[k].area_acres <= 200

C10_Witness ==
    /\ Extracted
    /\ \E j, k \in 1..Len(alerts) :
         /\ alerts[j].area_acres = 200 /\ alerts[j].severity = "high"
         /\ alerts[k].area_acres = 200 /\ alerts[k].severity = "medium"

====
